---------------------------- MODULE Spec2Model ----------------------------
(***************************************************************************)
(* A model of quart_wtf.form.QuartForm (src/quart_wtf/form.py).            *)
(*                                                                         *)
(* One behaviour follows one form class (which fields declare an           *)
(* async_validate_<name> method, the class-level Labels map), one request  *)
(* context and one form instance.  Every method of QuartForm is a call     *)
(* that starts from pc = "idle" and ends in pc = "done", with either a     *)
(* returned value or a raised exception; the coroutines suspend at their   *)
(* awaits, which are the steps in between.                                 *)
(*                                                                         *)
(* Python values of different types are modelled as records with a "kind"  *)
(* field, so that None, a MultiDict and a field can be compared.           *)
(***************************************************************************)
EXTENDS Naturals, Sequences, FiniteSets, TLC

(***************************************************************************)
(* Bounds of the model.                                                    *)
(***************************************************************************)
\* hidden_tag(*fields) is called with at most MaxArgs positional arguments.
MaxArgs == 2

(***************************************************************************)
(* The form class and its collaborators.                                   *)
(***************************************************************************)
\* self._fields, in declaration order (the order wtforms iterates them in).
FieldOrder == <<"csrf_token", "id", "email">>

FieldNames == {FieldOrder[i] : i \in 1..Len(FieldOrder)}

\* The fields whose validators the model varies; the CSRF token has no
\* asynchronous validator and its synchronous chain passes.
ValidatedFields == {"id", "email"}

\* isinstance(field.widget, HiddenInput)
IsHidden(name) == name \in {"csrf_token", "id"}

\* Attributes of a form instance that are not fields: getattr(self, name,
\* None) finds them as well.
FormAttributes == {"validate"}

\* Names that getattr(self, name, None) does not find.
UnknownNames == {"missing"}

None == [kind |-> "None"]

\* SUBMIT_METHODS with a method left out.
SUBMIT_METHODS_without_delete == {"POST", "PUT", "PATCH"}

SUBMIT_METHODS == {"POST", "PUT", "PATCH", "DELETE"}

\* The HTTP methods a request may have.
Methods == {"POST", "PUT", "PATCH", "DELETE", "GET", "HEAD", "OPTIONS"}

\* quart.request: no request context, or a request with an HTTP method.
Requests == {None} \cup {[kind |-> "Request", method |-> m] : m \in Methods}

\* What a field's synchronous validator chain does on the submitted data:
\* nothing raises; a validator raises ValidationError (the chain goes on);
\* a validator raises StopValidation with a message (the chain ends).
SyncOutcomes == {"clean", "invalid", "stop"}

\* What async_validate_<name> does on the submitted data: returns; raises
\* ValidationError; raises another exception.
AsyncOutcomes == {"ok", "invalid", "raise"}

SyncMsg == "This field is required."
AsyncMsg == "Already taken."

\* A label map: None or a dict, kept as the sequence of its (key, text)
\* items in insertion order.
NoLabels == [kind |-> "None", items |-> <<>>]
Dict(items) == [kind |-> "dict", items |-> items]
LabelMaps ==
    {NoLabels, Dict(<<>>), Dict(<< <<"email", "Your Email">> >>),
     Dict(<< <<"id", "Your Id">> >>)}
\* The values of the class attribute Labels.
ClassLabelMaps == {NoLabels, Dict(<<>>), Dict(<< <<"email", "Your Email">> >>)}

DefaultLabel(name) ==
    CASE name = "csrf_token" -> "CSRF Token"
      [] name = "id" -> "Id"
      [] OTHER -> "Email"

\* The contents of request.files, request.form and request.get_json(): the
\* keys they hold.
FilesValues == {{}, {"upload"}}
FormValues == {{}, {"email"}}
JsonValues == {{}, {"email"}}

MultiDict(keys) == [kind |-> "MultiDict", keys |-> keys, parts |-> <<>>]
ImmutableMultiDict(keys) ==
    [kind |-> "ImmutableMultiDict", keys |-> keys, parts |-> <<>>]
CombinedMultiDict(files, form) ==
    [kind |-> "CombinedMultiDict", keys |-> files \cup form,
     parts |-> <<files, form>>]
NoFormdata == [kind |-> "None", keys |-> {}, parts |-> <<>>]
\* The _Auto sentinel, the default of create_form's formdata argument.
Auto == [kind |-> "_Auto", keys |-> {}, parts |-> <<>>]
\* A formdata the caller built itself.
ExplicitFormdata == MultiDict({"id"})

VARIABLES
    hasAsync,        \* class: name -> whether async_validate_<name> exists
    Labels,          \* class: QuartForm.Labels
    request,         \* the request context
    constructed,     \* whether the form instance exists
    formdata,        \* the formdata the constructor was called with
    errors,          \* field.errors of every field
    label,           \* field.label.text of every field
    pc,              \* where the current call is
    call,            \* the method being called
    ret,             \* the value the call returned (when returned)
    returned,        \* the call returned a value
    raised,          \* the exception the call raised, or "none"
    chain,           \* this call's data: name -> SyncOutcomes
    avalid,          \* this call's data: name -> AsyncOutcomes
    loc,             \* the locals of the running coroutine
    tasks,           \* _validate_async coroutines in flight (field names)
    hist,            \* what the call did so far (for the properties)
    rendered         \* the fragments hidden_tag returned

vars ==
    <<hasAsync, Labels, request, constructed, formdata, errors, label, pc,
      call, ret, returned, raised, chain, avalid, loc, tasks, hist,
      rendered>>

classVars == <<hasAsync, Labels, request>>


(***************************************************************************)
(* is_submitted (lines 170-176)                                            *)
(***************************************************************************)
\* is_submitted without the test of the method.
is_submitted_any_method(req) == req # None

\* bool(request) and request.method in SUBMIT_METHODS
is_submitted(req) == req # None /\ req.method \in SUBMIT_METHODS

(***************************************************************************)
(* _get_formdata (lines 104-120)                                           *)
(***************************************************************************)
\* files and form are the awaited request.files and request.form; a
\* MultiDict is true when it holds a key.
\* _get_formdata with the posted fields tested before the files.
_get_formdata_form_first(files, form, is_json, json) ==
    IF form # {} THEN MultiDict(form)
    ELSE IF files # {} THEN CombinedMultiDict(files, form)
    ELSE IF is_json THEN ImmutableMultiDict(json)
    ELSE NoFormdata

_get_formdata(files, form, is_json, json) ==
    IF files # {} THEN CombinedMultiDict(files, form)
    ELSE IF form # {} THEN MultiDict(form)
    ELSE IF is_json THEN ImmutableMultiDict(json)
    ELSE NoFormdata

(***************************************************************************)
(* Labels: create_form (lines 82-100) and __init__ (lines 42-45)           *)
(***************************************************************************)
\* bool(d) of None or a dict
Truthy(d) == d.kind = "dict" /\ d.items # <<>>

\* Python's "a or b"
PyOr(a, b) == IF Truthy(a) THEN a ELSE b

\* translate_labels (lines 87-90): "for field, text in label_data" iterates
\* the KEYS of the dict and unpacks each key, a string, into two names:
\* ValueError unless the key has two characters; then "await text" awaits
\* a one-character string: TypeError.  No iteration completes, so the loop
\* ends at its first item.  The result is the exception raised, or "none".
translate_labels(label_data) ==
    IF label_data.items = <<>> THEN "none"
    ELSE IF Len(Head(label_data.items)[1]) # 2 THEN "ValueError"
    ELSE "TypeError"

\* Lines 84-100: the exception raised, or "none" with the labels handed to
\* the constructor (translated_labels, which is still {} when no
\* exception was raised).
resolve_labels(clsLabels, labels) ==
    IF PyOr(clsLabels, labels) # NoLabels
    THEN LET r1 == IF clsLabels # NoLabels
                   THEN translate_labels(clsLabels) ELSE "none"
             r2 == IF labels # NoLabels
                   THEN translate_labels(labels) ELSE "none"
         IN  [raised |-> IF r1 # "none" THEN r1 ELSE r2, labels |-> Dict(<<>>)]
    ELSE [raised |-> "none", labels |-> NoLabels]

\* __init__ lines 43-45: "for field, text in labels" unpacks each key as
\* above; a two-character key reaches self[field], which reads
\* self._fields before super().__init__ has created it: AttributeError.
init_labels(labels) ==
    IF labels = NoLabels \/ labels.items = <<>> THEN "none"
    ELSE IF Len(Head(labels.items)[1]) # 2 THEN "ValueError"
    ELSE "AttributeError"

(***************************************************************************)
(* validate (lines 133-168) and _validate_async (lines 122-131)            *)
(***************************************************************************)
\* Line 154, "extra.setdefault[name, []]": subscripting the bound method
\* dict.setdefault raises TypeError; nothing is registered.
setdefault_subscript(extra, name) == [raised |-> "TypeError", extra |-> extra]

\* Lines 150-154: the loop over self._fields, from the i-th field on.
RECURSIVE register_hooks(_, _, _, _)
register_hooks(i, has, av, extra) ==
    IF i > Len(FieldOrder) THEN [av |-> av, extra |-> extra, raised |-> "none"]
    ELSE LET name == FieldOrder[i] IN
         IF has[name]
         THEN LET s == setdefault_subscript(extra, name) IN
              IF s.raised # "none"
              THEN [av |-> av \cup {name}, extra |-> extra, raised |-> s.raised]
              ELSE register_hooks(i + 1, has, av \cup {name}, s.extra)
         ELSE register_hooks(i + 1, has, av, extra)

\* Line 157, super().validate(extra_validators=extra): wtforms resets every
\* field's errors and runs its chain, the validators of extra[name] last.
\* ValidationError appends its message and the chain goes on;
\* StopValidation appends its message and ends the chain, so that the
\* record_status hook of a field in `extra` does not run.
super_validate(ch, extra) ==
    LET errs == [n \in FieldNames |->
                    IF ch[n] = "clean" THEN <<>> ELSE <<SyncMsg>>]
        hook(n) == n \in extra /\ ch[n] # "stop"
    IN  [errors |-> errs,
         completed |-> SelectSeq(FieldOrder, hook),
         success |-> \A n \in FieldNames : errs[n] = <<>>]

\* Lines 160-161: one _validate_async coroutine per name in completed.
make_tasks(completed) == {completed[i] : i \in 1..Len(completed)}

\* _validate_async (lines 126-131) on a validator that behaves as `outcome`.
_validate_async(outcome, errs) ==
    CASE outcome = "ok" -> [errors |-> errs, result |-> "True"]
      [] outcome = "invalid" ->
            [errors |-> Append(errs, AsyncMsg), result |-> "False"]
      [] OTHER -> [errors |-> errs, result |-> "raised"]

\* Lines 165-168 with the asynchronous results overwriting the synchronous
\* one.
check_results_overwrite(success, async_results) == "False" \notin async_results

\* Lines 165-168.
check_results(success, async_results) ==
    IF "False" \in async_results THEN FALSE ELSE success

\* Lines 183-184: self.is_submitted() and await self.validate(...)
vos_result(submitted, validated) == submitted /\ validated

(***************************************************************************)
(* hidden_tag (lines 186-205)                                              *)
(***************************************************************************)
StrArg(name) == [kind |-> "str", name |-> name]
FieldObj(name) == [kind |-> "field", name |-> name]

\* getattr(self, name, None)
getattr_form(name) ==
    IF name \in FieldNames THEN FieldObj(name)
    ELSE IF name \in FormAttributes THEN [kind |-> "attr", name |-> name]
    ELSE [kind |-> "None", name |-> name]

\* The generator hidden_fields (lines 195-203): the names of the fields it
\* yields, and the exception it raises (reading .widget of an attribute
\* that is no field).
RECURSIVE hidden_fields(_)
hidden_fields(fields) ==
    IF fields = <<>> THEN [out |-> <<>>, raised |-> "none"]
    ELSE LET field == IF Head(fields).kind = "str"
                      THEN getattr_form(Head(fields).name)
                      ELSE Head(fields)
         IN  IF field.kind = "None" THEN hidden_fields(Tail(fields))
             ELSE IF field.kind = "attr"
             THEN [out |-> <<>>, raised |-> "AttributeError"]
             ELSE IF ~IsHidden(field.name) THEN hidden_fields(Tail(fields))
             ELSE LET r == hidden_fields(Tail(fields))
                  IN  [out |-> <<field.name>> \o r.out, raised |-> r.raised]

\* str(field) of a hidden field: the text of its <input> element.
Render(name) == <<"<input type=hidden name=", name, ">">>

\* "\n".join(...)
RECURSIVE Join(_)
Join(frags) ==
    IF frags = <<>> THEN <<>>
    ELSE IF Len(frags) = 1 THEN Head(frags)
    ELSE Head(frags) \o <<"\n">> \o Join(Tail(frags))

\* iter(self): the form's fields in order.
AllFields == [i \in 1..Len(FieldOrder) |-> FieldObj(FieldOrder[i])]

\* hidden_tag(*fields): the markup, or the exception raised.
hidden_tag(fields) ==
    LET h == hidden_fields(IF fields # <<>> THEN fields ELSE AllFields)
    IN  [raised |-> h.raised,
         markup |-> IF h.raised = "none"
                    THEN Join([i \in 1..Len(h.out) |-> Render(h.out[i])])
                    ELSE <<>>]

(***************************************************************************)
(* The state machine.                                                      *)
(***************************************************************************)
\* A call's data when it runs no validator.
NoChain == [n \in FieldNames |-> "clean"]
NoAvalid == [n \in FieldNames |-> "ok"]

NoBody == [files |-> {}, form |-> {}, is_json |-> FALSE, json |-> {}]

\* The locals of validate and create_form before the call sets them.
LocInit ==
    [extra |-> {}, async_validators |-> {}, completed |-> <<>>,
     success |-> FALSE, results |-> [n \in FieldNames |-> "none"],
     submitted |-> FALSE, field |-> "", formdata |-> NoFormdata,
     labels |-> NoLabels]

\* What a call has done, for the properties: whether the synchronous pass
\* ran, the asynchronous validators invoked, the coroutines validate
\* dispatched, the error lists when the call began, whether the request
\* body was read and what it held, the arguments, validate's own result.
HistInit(errs) ==
    [syncRan |-> FALSE, invoked |-> {}, dispatched |-> {}, errors0 |-> errs,
     read |-> FALSE, body |-> NoBody, arg_formdata |-> Auto,
     arg_labels |-> NoLabels, args |-> <<>>, vret |-> FALSE]

ArgItems ==
    {StrArg(n) : n \in FieldNames \cup FormAttributes \cup UnknownNames}
        \cup {FieldObj(n) : n \in FieldNames}

HiddenTagArgs == UNION {[1..k -> ArgItems] : k \in 0..MaxArgs}

\* The data of a validation call: every field's synchronous outcome, and
\* the outcome of the asynchronous validator of every field that has one.
Chains ==
    {c \in [FieldNames -> SyncOutcomes] :
        \A n \in FieldNames \ ValidatedFields : c[n] = "clean"}
Avalids(has) ==
    {a \in [FieldNames -> AsyncOutcomes] : \A n \in FieldNames : ~has[n] => a[n] = "ok"}

Init ==
    /\ hasAsync \in {h \in [FieldNames -> BOOLEAN] :
                        \A n \in FieldNames \ ValidatedFields : ~h[n]}
    /\ Labels \in ClassLabelMaps
    /\ request \in Requests
    /\ constructed = FALSE
    /\ formdata = NoFormdata
    /\ errors = [n \in FieldNames |-> <<>>]
    /\ label = [n \in FieldNames |-> DefaultLabel(n)]
    /\ pc = "idle"
    /\ call = "none"
    /\ ret = FALSE
    /\ returned = FALSE
    /\ raised = "none"
    /\ chain = NoChain
    /\ avalid = NoAvalid
    /\ loc = LocInit
    /\ tasks = {}
    /\ hist = HistInit(errors)
    /\ rendered = <<>>

\* QuartForm(formdata, labels=labels): __init__ (lines 42-47).
init_call(fd, labels) ==
    /\ pc = "idle" /\ ~constructed
    /\ call' = "__init__"
    /\ pc' = "done"
    /\ hist' = [hist EXCEPT !.arg_formdata = fd, !.arg_labels = labels]
    /\ raised' = init_labels(labels)
    /\ returned' = (raised' = "none")
    /\ constructed' = (raised' = "none")
    /\ formdata' = IF raised' = "none" THEN fd ELSE formdata
    /\ UNCHANGED <<classVars, errors, label, ret, chain, avalid, loc, tasks,
                   rendered>>

\* create_form up to its first await (lines 75-80).
create_form(fd, labels) ==
    /\ pc = "idle" /\ ~constructed
    /\ call' = "create_form"
    /\ hist' = [hist EXCEPT !.arg_formdata = fd, !.arg_labels = labels]
    /\ IF fd = Auto
       THEN IF is_submitted(request)
            THEN /\ pc' = "get_formdata"
                 /\ loc' = [loc EXCEPT !.labels = labels]
            ELSE /\ pc' = "labels"
                 /\ loc' = [loc EXCEPT !.labels = labels,
                                       !.formdata = NoFormdata]
       ELSE /\ pc' = "labels"
            /\ loc' = [loc EXCEPT !.labels = labels, !.formdata = fd]
    /\ UNCHANGED <<classVars, constructed, formdata, errors, label, ret,
                   returned, raised, chain, avalid, tasks, rendered>>

\* await cls._get_formdata() (line 78): the request's body is read.
get_formdata(files, form, is_json, json) ==
    /\ pc = "get_formdata"
    /\ pc' = "labels"
    /\ loc' = [loc EXCEPT !.formdata = _get_formdata(files, form, is_json, json)]
    /\ hist' = [hist EXCEPT !.read = TRUE,
                            !.body = [files |-> files, form |-> form,
                                      is_json |-> is_json, json |-> json]]
    /\ UNCHANGED <<classVars, constructed, formdata, errors, label, call,
                   ret, returned, raised, chain, avalid, tasks, rendered>>

\* The rest of create_form (lines 82-102): the labels are resolved and the
\* constructor is called.
create_form_construct ==
    /\ pc = "labels"
    /\ pc' = "done"
    /\ LET r == resolve_labels(Labels, loc.labels)
           e == IF r.raised # "none" THEN r.raised ELSE init_labels(r.labels)
       IN  /\ raised' = e
           /\ returned' = (e = "none")
           /\ constructed' = (e = "none")
           /\ formdata' = IF e = "none" THEN loc.formdata ELSE formdata
    /\ UNCHANGED <<classVars, errors, label, call, ret, chain, avalid, loc,
                   tasks, hist, rendered>>

\* QuartForm.is_submitted()
is_submitted_call ==
    /\ pc = "idle"
    /\ call' = "is_submitted"
    /\ pc' = "done"
    /\ ret' = is_submitted(request)
    /\ returned' = TRUE
    /\ UNCHANGED <<classVars, constructed, formdata, errors, label, raised,
                   chain, avalid, loc, tasks, hist, rendered>>

\* validate up to its await (lines 137-162): the hooks are registered, the
\* synchronous pass runs, the coroutines are created and gathered.
validate_enter(c, ch, av) ==
    LET r == register_hooks(1, hasAsync, {}, {})
        s == super_validate(ch, r.extra)
    IN  /\ call' = c
        /\ chain' = ch
        /\ avalid' = av
        /\ IF r.raised # "none"
           THEN /\ pc' = "done"
                /\ raised' = r.raised
                /\ loc' = [loc EXCEPT !.extra = r.extra,
                                      !.async_validators = r.av,
                                      !.submitted = is_submitted(request)]
                /\ UNCHANGED <<errors, tasks, hist>>
           ELSE /\ pc' = "gather"
                /\ raised' = "none"
                /\ errors' = s.errors
                /\ loc' = [loc EXCEPT !.extra = r.extra,
                                      !.async_validators = r.av,
                                      !.completed = s.completed,
                                      !.success = s.success,
                                      !.submitted = is_submitted(request),
                                      !.results =
                                          [n \in FieldNames |->
                                              IF n \in make_tasks(s.completed)
                                              THEN "pending" ELSE "none"]]
                /\ tasks' = make_tasks(s.completed)
                /\ hist' = [hist EXCEPT !.syncRan = TRUE,
                                        !.dispatched = make_tasks(s.completed)]
        /\ UNCHANGED <<classVars, constructed, formdata, label, ret, returned,
                       rendered>>

\* form.validate()
validate(ch, av) ==
    /\ pc = "idle" /\ constructed
    /\ validate_enter("validate", ch, av)

\* form.validate_on_submit() (lines 178-184)
validate_on_submit(ch, av) ==
    /\ pc = "idle" /\ constructed
    /\ IF is_submitted(request)
       THEN validate_enter("validate_on_submit", ch, av)
       ELSE /\ call' = "validate_on_submit"
            /\ chain' = ch
            /\ avalid' = av
            /\ pc' = "done"
            /\ ret' = vos_result(FALSE, TRUE)
            /\ returned' = TRUE
            /\ UNCHANGED <<classVars, constructed, formdata, errors, label,
                           raised, loc, tasks, hist, rendered>>

\* form._validate_async(validator, field), called on its own.
validate_async_call(f, v) ==
    /\ pc = "idle" /\ constructed
    /\ call' = "_validate_async"
    /\ pc' = "await_async"
    /\ avalid' = [NoAvalid EXCEPT ![f] = v]
    /\ tasks' = {f}
    /\ loc' = [loc EXCEPT !.field = f, !.results[f] = "pending"]
    /\ UNCHANGED <<classVars, constructed, formdata, errors, label, ret,
                   returned, raised, chain, hist, rendered>>

\* One _validate_async coroutine runs (lines 126-131).
validate_async_run(f) ==
    /\ f \in tasks
    /\ LET r == _validate_async(avalid[f], errors[f])
       IN  /\ errors' = [errors EXCEPT ![f] = r.errors]
           /\ loc' = [loc EXCEPT !.results[f] = r.result]
    /\ tasks' = tasks \ {f}
    /\ hist' = [hist EXCEPT !.invoked = @ \cup {f}]
    /\ UNCHANGED <<classVars, constructed, formdata, label, pc, call, ret,
                   returned, raised, chain, avalid, rendered>>

\* The direct call of _validate_async ends.
validate_async_return ==
    /\ pc = "await_async" /\ tasks = {}
    /\ pc' = "done"
    /\ IF loc.results[loc.field] = "raised"
       THEN /\ raised' = "ValidatorError"
            /\ UNCHANGED <<ret, returned>>
       ELSE /\ ret' = (loc.results[loc.field] = "True")
            /\ returned' = TRUE
            /\ UNCHANGED raised
    /\ UNCHANGED <<classVars, constructed, formdata, errors, label, call,
                   chain, avalid, loc, tasks, hist, rendered>>

\* await asyncio.gather(*tasks) ends, and validate with it (lines 162-168):
\* with the first exception a task raised, or when every task is done.
gather_join ==
    /\ pc = "gather"
    /\ LET failed == {n \in hist.dispatched : loc.results[n] = "raised"}
           v == check_results(loc.success,
                              {loc.results[n] : n \in hist.dispatched})
       IN  IF failed # {}
           THEN /\ raised' = "ValidatorError"
                /\ UNCHANGED <<ret, returned, hist>>
           ELSE /\ tasks \cap hist.dispatched = {}
                /\ ret' = IF call = "validate_on_submit"
                          THEN vos_result(loc.submitted, v) ELSE v
                /\ returned' = TRUE
                /\ hist' = [hist EXCEPT !.vret = v]
                /\ UNCHANGED raised
    /\ pc' = "done"
    /\ UNCHANGED <<classVars, constructed, formdata, errors, label, call,
                   chain, avalid, loc, tasks, rendered>>

\* form.hidden_tag(*fields)
hidden_tag_call(fields) ==
    /\ pc = "idle" /\ constructed
    /\ call' = "hidden_tag"
    /\ pc' = "done"
    /\ hist' = [hist EXCEPT !.args = fields]
    /\ LET r == hidden_tag(fields)
       IN  /\ raised' = r.raised
           /\ returned' = (r.raised = "none")
           /\ rendered' = r.markup
    /\ UNCHANGED <<classVars, constructed, formdata, errors, label, ret,
                   chain, avalid, loc, tasks>>

\* The caller takes the result.  After a validation the handler responds
\* and the form, made for this request, is discarded; otherwise the form is
\* ready for the next call.
finish ==
    /\ pc = "done" /\ tasks = {}
    /\ IF call \in {"validate", "validate_on_submit", "_validate_async"}
       THEN /\ constructed' = FALSE
            /\ errors' = [n \in FieldNames |-> <<>>]
       ELSE UNCHANGED <<constructed, errors>>
    /\ formdata' = NoFormdata
    /\ pc' = "idle"
    /\ call' = "none"
    /\ ret' = FALSE
    /\ returned' = FALSE
    /\ raised' = "none"
    /\ chain' = NoChain
    /\ avalid' = NoAvalid
    /\ loc' = LocInit
    /\ hist' = HistInit(errors')
    /\ rendered' = <<>>
    /\ UNCHANGED <<classVars, label, tasks>>

Next ==
    \/ \E fd \in {NoFormdata, ExplicitFormdata}, l \in LabelMaps : init_call(fd, l)
    \/ \E fd \in {Auto, NoFormdata, ExplicitFormdata}, l \in LabelMaps : create_form(fd, l)
    \/ \E files \in FilesValues, form \in FormValues, is_json \in BOOLEAN, json \in JsonValues :
          (~is_json => json = {}) /\ get_formdata(files, form, is_json, json)
    \/ create_form_construct
    \/ is_submitted_call
    \/ \E ch \in Chains, av \in Avalids(hasAsync) : validate(ch, av)
    \/ \E ch \in Chains, av \in Avalids(hasAsync) : validate_on_submit(ch, av)
    \/ \E f \in FieldNames, v \in AsyncOutcomes : validate_async_call(f, v)
    \/ \E f \in FieldNames : validate_async_run(f)
    \/ validate_async_return
    \/ gather_join
    \/ \E a \in HiddenTagArgs : hidden_tag_call(a)
    \/ finish

Spec == Init /\ [][Next]_vars

(***************************************************************************)
(* Properties.                                                             *)
(***************************************************************************)
\* The request is one that submits a form, stated on its own.
Submitting ==
    /\ request.kind = "Request"
    /\ request.method \in {"POST", "PUT", "PATCH", "DELETE"}

ValidateDone == call = "validate" /\ pc = "done"

\* C1: when validate() has ended, the asynchronous validator of every field
\* that declares one was invoked if and only if the field's synchronous
\* chain runs to completion without a stop-validation signal.
C1_AsyncIffSyncCompleted ==
    ValidateDone =>
        \A n \in FieldNames :
            hasAsync[n] => (n \in hist.invoked <=> chain[n] # "stop")

\* C2: with asynchronous validators on both fields and clean synchronous
\* chains, when one asynchronous validator raises a validation error and
\* the other succeeds, validate() returns false, the failing field's errors
\* are exactly the message, and the other field's errors are empty.
C2_OneAsyncFails ==
    \A a \in ValidatedFields : \A b \in ValidatedFields \ {a} :
        ( /\ ValidateDone
          /\ hasAsync[a] /\ hasAsync[b]
          /\ \A n \in FieldNames : chain[n] = "clean"
          /\ avalid[a] = "invalid" /\ avalid[b] = "ok" )
        => /\ returned /\ ret = FALSE
           /\ errors[a] = <<AsyncMsg>>
           /\ errors[b] = <<>>

\* C3: whenever validate() returns a value, the value is true if and only
\* if the synchronous pass succeeded and every asynchronous validator run
\* in the call succeeded.
C3_ValidateResult ==
    (ValidateDone /\ returned) =>
        (ret <=> ( /\ loc.success
                   /\ \A n \in hist.invoked : loc.results[n] = "True" ))

\* validate() returned false because the synchronous pass failed.
C3_Witness ==
    /\ ValidateDone /\ returned /\ ~ret
    /\ hist.syncRan /\ chain["email"] = "invalid"

\* C4: not submitted, validate_on_submit() returns false, runs no
\* synchronous or asynchronous validator and leaves every error list as it
\* was; submitted, it ends as validate() ends: it returns the value validate
\* returned, or validate's exception propagates.
C4_ValidateOnSubmit ==
    (call = "validate_on_submit" /\ pc = "done") =>
        IF ~Submitting
        THEN /\ returned /\ ret = FALSE /\ raised = "none"
             /\ ~hist.syncRan /\ hist.invoked = {}
             /\ errors = hist.errors0
        ELSE \/ returned /\ raised = "none" /\ hist.syncRan /\ ret = hist.vret
             \/ ~returned /\ raised # "none"

\* Under a GET request validate_on_submit() returned false although the
\* data would have failed validation.
C4_Witness ==
    /\ call = "validate_on_submit" /\ pc = "done"
    /\ request.kind = "Request" /\ request.method = "GET"
    /\ chain["email"] = "invalid"
    /\ returned /\ ~ret

\* C5: a call of is_submitted() returns, without raising, true exactly when
\* there is a request context whose method is POST, PUT, PATCH or DELETE,
\* and it changes nothing of the class, the request or the form.
C5_IsSubmitted ==
    [][(pc = "idle" /\ call' = "is_submitted") =>
          /\ returned' /\ raised' = "none"
          /\ ret' <=> Submitting
          /\ UNCHANGED <<hasAsync, Labels, request, constructed, formdata,
                         errors, label>>]_vars

\* is_submitted() returned false where there is no request context.
C5_Witness ==
    /\ call = "is_submitted" /\ pc = "done"
    /\ request = None
    /\ returned /\ ~ret /\ raised = "none"

\* C6: when create_form constructs the form, the formdata it hands over is,
\* for the AUTO sentinel: none when not submitted; else files and posted
\* fields combined when there are files; else the posted fields when there
\* are any; else the wrapped JSON body of a JSON request; else none.  An
\* explicit formdata is handed over as it is, the request not being read.
C6_Formdata ==
    (call = "create_form" /\ pc = "done" /\ returned) =>
        LET b == hist.body IN
        IF hist.arg_formdata = Auto
        THEN IF ~Submitting THEN ~hist.read /\ formdata.kind = "None"
             ELSE IF b.files # {}
                  THEN /\ formdata.kind = "CombinedMultiDict"
                       /\ formdata.parts = <<b.files, b.form>>
             ELSE IF b.form # {}
                  THEN formdata.kind = "MultiDict" /\ formdata.keys = b.form
             ELSE IF b.is_json
                  THEN /\ formdata.kind = "ImmutableMultiDict"
                       /\ formdata.keys = b.json
             ELSE formdata.kind = "None"
        ELSE formdata = hist.arg_formdata /\ ~hist.read

\* A submitted request with files and no posted fields gave the combined
\* view.
C6_Witness ==
    /\ call = "create_form" /\ pc = "done" /\ returned
    /\ hist.arg_formdata = Auto /\ hist.read
    /\ hist.body.files # {} /\ hist.body.form = {}
    /\ formdata = CombinedMultiDict({"upload"}, {})

\* C7: create_form called with labels={"email": "Your Email"} constructs
\* the form, whose email label then reads "Your Email", the other labels
\* being the original ones.
C7_LabelOverride ==
    ( /\ call = "create_form" /\ pc = "done"
      /\ hist.arg_labels = Dict(<< <<"email", "Your Email">> >>) )
    => /\ returned /\ constructed
       /\ label["email"] = "Your Email"
       /\ \A n \in FieldNames \ {"email"} : label[n] = DefaultLabel(n)

\* C8: when the asynchronous validator of a field whose synchronous chain
\* completes raises something other than a validation error, validate()
\* returns no value, that exception reaches the caller and no message is
\* recorded for it.
C8_OtherExceptionPropagates ==
    \A n \in FieldNames :
        ( /\ ValidateDone
          /\ hasAsync[n] /\ avalid[n] = "raise"
          /\ \A m \in FieldNames : chain[m] = "clean" )
        => /\ ~returned
           /\ raised = "ValidatorError"
           /\ errors[n] = <<>>

\* What hidden_tag is to render: the hidden ones of the given fields that
\* exist, in the order given; of all the fields when none is given.
HiddenOf(fields) ==
    LET given == IF fields = <<>> THEN AllFields ELSE fields
        ok(a) == a.name \in FieldNames /\ IsHidden(a.name)
        kept == SelectSeq(given, ok)
    IN  [i \in 1..Len(kept) |-> kept[i].name]

\* C9: hidden_tag renders the hidden fields among those given (all the
\* form's fields when none is given), in order, joined by newlines, and
\* skips names that are no field of the form and fields that are not
\* hidden.
C9_HiddenTag ==
    (call = "hidden_tag" /\ pc = "done") =>
        LET want == HiddenOf(hist.args) IN
        /\ returned /\ raised = "none"
        /\ rendered = Join([i \in 1..Len(want) |-> Render(want[i])])

\* C10: in validate(), coroutines are dispatched only once the synchronous
\* pass has run; validate() returns only when every dispatched coroutine
\* has finished; and when none of them is left unfinished or has raised,
\* validate() returns a value.
C10_GatherCompletes ==
    call = "validate" =>
        /\ hist.dispatched # {} => hist.syncRan
        /\ (pc = "done" /\ returned) => tasks \cap hist.dispatched = {}
        /\ ( /\ pc = "done"
             /\ tasks \cap hist.dispatched = {}
             /\ \A n \in hist.dispatched : loc.results[n] # "raised" )
           => returned

=============================================================================
